---- MODULE Spec2Model ----
(***************************************************************************)
(* Model of gen::CHashTable<TEntityUID, TUInt32> (Source/Common/CHashTable) *)
(* as it is instantiated by CEntityManager: keys are 4-byte unsigned        *)
(* integers hashed over their little-endian bytes, values are TUInt32.      *)
(*                                                                          *)
(* A TUInt32 that can take any 32-bit value (the hash accumulator) is kept  *)
(* as a pair <<hi, lo>> of 16-bit halves, so that every add and shift is    *)
(* taken modulo 2^32.  m_iSize and m_iNumEntries stay far below 2^32 in     *)
(* every reachable state of the model and are plain naturals.               *)
(*                                                                          *)
(* m_kfMaxLoadFactor is a float in the code; it is kept as a fraction       *)
(* <<numerator, denominator>>.  The bucket counts of the model are powers   *)
(* of two and the load factors 0.7f and 0.2f, so the product m_iSize *      *)
(* m_kfMaxLoadFactor is never within rounding distance of an integer and    *)
(* the float comparison                                                     *)
(* m_iNumEntries > m_iSize * m_kfMaxLoadFactor agrees with the exact one.   *)
(***************************************************************************)
EXTENDS Integers, Sequences, FiniteSets, TLC

\* ---------------------------------------------------------------- bounds
MaxKey == 3
MaxValue == 1
\* m_iSize doubles without limit in the code (until TUInt32 overflows); the
\* model stops calling SetKeyValue where it would grow the table beyond this
MaxSize == 8
\* Longest byte sequence passed to a hash function called directly
MaxLen == 2
\* Number of key codes (kMaxKeyCodes)
MaxKeyCode == 3
\* Number of SendMessage calls the model makes
MaxSent == 3
\* Number of entities the model creates (m_NextUID stops there)
MaxUID == 3

Keys == 1..MaxKey
Values == 0..MaxValue

\* What the caller's variable holds when it calls LookUpKey: a value that is
\* never stored, so that a write to it shows
CallerValue == MaxValue + 1

\* Constructor arguments the model draws from
InitialSizes == {1, 2}
LoadFactors == {<<7, 10>>, <<1, 5>>}
HashFunctions == {"AddUpHash", "JOneAtATimeHash"}

\* ---------------------------------------------------------------- TUInt32
Pow2(n) == 2 ^ n
Half == 65536

RECURSIVE Xor16(_, _)
Xor16(a, b) ==
    IF a = 0 THEN b
    ELSE IF b = 0 THEN a
    ELSE (((a % 2) + (b % 2)) % 2) + 2 * Xor16(a \div 2, b \div 2)

\* a + b modulo 2^32
Add32(a, b) ==
    LET lo == a[2] + b[2]
        hi == a[1] + b[1] + (lo \div Half)
    IN  <<hi % Half, lo % Half>>

\* a << n modulo 2^32, 0 < n < 16
Shl32(a, n) ==
    LET lo == a[2] * Pow2(n)
        hi == (a[1] % Pow2(16 - n)) * Pow2(n) + (lo \div Half)
    IN  <<hi % Half, lo % Half>>

\* a >> n, 0 < n < 16
Shr32(a, n) ==
    <<a[1] \div Pow2(n), (a[2] \div Pow2(n)) + (a[1] % Pow2(n)) * Pow2(16 - n)>>

Xor32(a, b) == <<Xor16(a[1], b[1]), Xor16(a[2], b[2])>>

\* a % m for a small modulus m
Mod32(a, m) == ((a[1] % m) * (Half % m) + (a[2] % m)) % m

\* The sizeof(TKeyType) = 4 bytes of a key, lowest byte first
KeyBytes(key) ==
    <<key % 256, (key \div 256) % 256, (key \div 65536) % 256, 0>>

\* ---------------------------------------------------------------- hash functions
RECURSIVE AddUpLoop(_, _, _)
AddUpLoop(iHash, pKey, iKeyIndex) ==
    IF iKeyIndex > Len(pKey) THEN iHash
    ELSE AddUpLoop(Add32(iHash, <<0, pKey[iKeyIndex]>>), pKey, iKeyIndex + 1)

AddUpHash(pKey) == AddUpLoop(<<0, 0>>, pKey, 1)

\* A mixing step that shifts right by 10 and left by 6
JMixByteShiftsSwapped(iHash, byte) ==
    LET h1 == Add32(iHash, <<0, byte>>)
        h2 == Add32(h1, Shl32(h1, 6))
    IN  Xor32(h2, Shr32(h2, 10))

JMixByte(iHash, byte) ==
    LET h1 == Add32(iHash, <<0, byte>>)
        h2 == Add32(h1, Shl32(h1, 10))
    IN  Xor32(h2, Shr32(h2, 6))

RECURSIVE JLoop(_, _, _)
JLoop(iHash, pKey, iKeyIndex) ==
    IF iKeyIndex > Len(pKey) THEN iHash
    ELSE JLoop(JMixByte(iHash, pKey[iKeyIndex]), pKey, iKeyIndex + 1)

JFinal(iHash) ==
    LET h1 == Add32(iHash, Shl32(iHash, 3))
        h2 == Xor32(h1, Shr32(h1, 11))
    IN  Add32(h2, Shl32(h2, 15))

JOneAtATimeHash(pKey) == JFinal(JLoop(<<0, 0>>, pKey, 1))

\* The keys of the ten-key scenario, each stored with the value key * 10
ScenarioKeys == 1..10
ScenarioValue(key) == key * 10

\* The UIDs the entity manager hands out, and one it never does
EntityUIDs == 0..MaxUID

\* A hash function a caller can pass that sends every key to the same bucket
OneBucketHash(pKey) == <<0, 0>>

\* The functions a table can be constructed with: the two of the library and
\* the caller's
PluggedHashFunctions == HashFunctions \cup {"OneBucketHash"}

\* The hash of every key of the model under each function, computed once
HashOf ==
    [f \in PluggedHashFunctions |->
        [key \in Keys \cup ScenarioKeys \cup EntityUIDs |->
            IF f = "AddUpHash" THEN AddUpHash(KeyBytes(key))
            ELSE IF f = "JOneAtATimeHash" THEN JOneAtATimeHash(KeyBytes(key))
            ELSE OneBucketHash(KeyBytes(key))]]

\* ---------------------------------------------------------------- state
VARIABLES
    m_aBuckets,         \* [0..m_iSize-1 -> Seq([key, value])], the bucket array
    m_iSize,            \* number of buckets
    m_iNumEntries,      \* the entry counter the code maintains
    m_kfMaxLoadFactor,  \* <<numerator, denominator>>, fixed at construction
    m_kpfHashFunction,  \* name of the hash function, fixed at construction
    iInitialSize,       \* the constructor's iInitialSize argument
    lastOp,             \* the last public call: its arguments, its result, and
                        \* m_iSize and m_iNumEntries when it was made
    onlySet,            \* TRUE while no call since construction was RemoveKey
                        \* or RemoveAllKeys
    lastSet,            \* per key, the value of the last SetKeyValue not followed
                        \* by a removal of the key or of all keys (NoValue if none)
    stack,              \* the frames of the SetKeyValue and Resize calls under
                        \* way, innermost last; empty between public calls
    allocated           \* the bucket arrays that new TBucket[] returned and
                        \* delete[] has not released, each named by its size

\* A direct call of a hash function
VARIABLES
    pKeyData,           \* the bytes passed to the last call
    iIndex,             \* what the last call returned
    hashCalled          \* the function last called, "none" before the first call

hashVars == <<pKeyData, iIndex, hashCalled>>

\* No hash function has been called directly
HashUnused == pKeyData = <<>> /\ iIndex = <<0, 0>> /\ hashCalled = "none"

NoValue == -1

\* The key input functions
VARIABLES
    g_aiKeyStates,      \* per key code: "kNotPressed", "kPressed" or "kHeld"
    press,              \* per key code, what happened to the key: "up" (it is
                        \* not down), "pressed" (a KeyDownEvent found it up and no
                        \* KeyHit was called for it since), "reported" (KeyHit was
                        \* called for it since that KeyDownEvent)
    lastInput           \* the last call: its key code, its result, and whether
                        \* it was the first KeyHit for the key since it went down

inputVars == <<g_aiKeyStates, press, lastInput>>

KeyCodes == 1..MaxKeyCode

InputCall(op, eKeyCode, result, first) ==
    [op |-> op, eKeyCode |-> eKeyCode, result |-> result, first |-> first]

\* The state InitInput leaves
InputUnused ==
    /\ g_aiKeyStates = [eKeyCode \in KeyCodes |-> "kNotPressed"]
    /\ press = [eKeyCode \in KeyCodes |-> "up"]
    /\ lastInput = InputCall("InitInput", 0, FALSE, FALSE)

\* The messenger
VARIABLES
    m_Messages,         \* the multimap, as the sequence of its [to, msg] pairs in
                        \* key order
    sent,               \* per [to, msg], how many times it was passed to SendMessage
    fetched,            \* per [to, msg], how many times FetchMessage( to ) returned it
    lastFetch           \* the last call: its UID, its result, the message it
                        \* returned, and how many messages sent to the UID had
                        \* not been fetched when it was made

messengerVars == <<m_Messages, sent, fetched, lastFetch>>

\* The UIDs messages are sent to, and the messages (SMessage values)
UIDs == Keys
Messages == Values
NoMessage == NoValue

Addressed == [to : UIDs, msg : Messages]

MessengerCall(op, to, result, msg, owed) ==
    [op |-> op, to |-> to, result |-> result, msg |-> msg, owed |-> owed]

\* The messenger as constructed
MessengerUnused ==
    /\ m_Messages = <<>>
    /\ sent = [pair \in Addressed |-> 0]
    /\ fetched = [pair \in Addressed |-> 0]
    /\ lastFetch = MessengerCall("CMessenger", 0, FALSE, NoMessage, 0)

\* The entity manager (its UID map is the table above)
VARIABLES
    m_Entities,         \* the packed vector, as a sequence of [UID, name, kind]:
                        \* m_Entities[i] of the code is m_Entities[i + 1] here
    m_NextUID,
    m_IsEnumerating,
    m_EnumEntity,       \* the iterator, as an index of the code's vector
    m_EnumName,
    m_EnumTemplateName,
    m_EnumTemplateType,
    lastManagerCall,    \* the last call of the manager: its UID and its result
    sinceBegin,         \* what was called since the last BeginEnumEntities:
                        \* "none" (no enumeration was begun, or it was ended or
                        \* ran out), "begun" (nothing that is listed next),
                        \* "refused" (DestroyEntity calls that returned false),
                        \* "changed" (a call that changed the entity list)
    entity,             \* the loop index of the UpdateAllEntities under way,
                        \* NotUpdating if there is none
    updates,            \* per UID, what its Update calls returned in the last
                        \* UpdateAllEntities, in order
    liveAtStart         \* the UIDs in m_Entities when the last UpdateAllEntities
                        \* was called

managerVars == <<m_Entities, m_NextUID, m_IsEnumerating, m_EnumEntity, m_EnumName,
                 m_EnumTemplateName, m_EnumTemplateType, lastManagerCall, sinceBegin,
                 entity, updates, liveAtStart>>

NotUpdating == -1

ManagerCall(op, UID, result) == [op |-> op, UID |-> UID, result |-> result]

\* The manager as constructed, its table apart
ManagerUnused ==
    /\ m_Entities = <<>>
    /\ m_NextUID = 0
    /\ m_IsEnumerating = FALSE
    /\ m_EnumEntity = 0
    /\ m_EnumName = ""
    /\ m_EnumTemplateName = ""
    /\ m_EnumTemplateType = ""
    /\ lastManagerCall = ManagerCall("CEntityManager", 0, FALSE)
    /\ sinceBegin = "none"
    /\ entity = NotUpdating
    /\ updates = [UID \in EntityUIDs |-> <<>>]
    /\ liveAtStart = {}

\* A second thread that calls LookUpKey on the table
VARIABLES
    look,       \* its LookUpKey call: where it is ("idle": no call was made,
                \* "FindBucket": at its first line, "begin": FindBucket returned,
                \* "scan": m_aBuckets[iBucket].begin() is taken, "returned"), its
                \* key, its iBucket, the bucket array it took the bucket from (by
                \* its size), what it returned and left in *pValue, and the value
                \* the key had when the call was made (NoValue if it had none or
                \* was being set)
    locked      \* whether the callers hold one lock around every call

raceVars == <<look, locked>>

LookUp(pc, key, iBucket, array, found, value, expect) ==
    [pc |-> pc, key |-> key, iBucket |-> iBucket, array |-> array,
     found |-> found, value |-> value, expect |-> expect]

\* No second thread
RaceUnused == look = LookUp("idle", 0, 0, 0, FALSE, NoValue, NoValue) /\ locked = TRUE

\* What a call of the table leaves alone besides the table
outsideTable == <<hashVars, inputVars, messengerVars, managerVars, raceVars>>

OutsideTableUnused ==
    HashUnused /\ InputUnused /\ MessengerUnused /\ ManagerUnused /\ RaceUnused

tableVars == <<m_aBuckets, m_iSize, m_iNumEntries, m_kfMaxLoadFactor,
               m_kpfHashFunction, iInitialSize, lastOp, onlySet, lastSet, stack,
               allocated>>

vars == <<tableVars, outsideTable>>


\* The table as the member functions see it
This == [aBuckets |-> m_aBuckets, iSize |-> m_iSize, iNumEntries |-> m_iNumEntries]

\* The record of a call made on the current table
Call(op, key, value, result) ==
    [op |-> op, key |-> key, value |-> value, result |-> result,
     sizeBefore |-> m_iSize, numBefore |-> m_iNumEntries]

\* ---------------------------------------------------------------- support functions
\* iIndex = m_kpfHashFunction(pKeyData, sizeof(TKeyType)); iIndex %= m_iSize
FindBucket(t, key) == Mod32(HashOf[m_kpfHashFunction][key], t.iSize)

\* end() of a bucket
End(bucket) == Len(bucket) + 1

RECURSIVE FindFrom(_, _, _)
FindFrom(bucket, key, it) ==
    IF it = End(bucket) THEN it
    ELSE IF key = bucket[it].key THEN it
    ELSE FindFrom(bucket, key, it + 1)

\* A search that looks at the front pair only
FindKeyValuePairFrontOnly(bucket, key) ==
    IF Len(bucket) > 0 /\ key = bucket[1].key THEN 1 ELSE End(bucket)

\* Position of the first pair with the given key, End(bucket) if there is none
FindKeyValuePair(bucket, key) == FindFrom(bucket, key, 1)

\* A load check that leaves the load factor out
TooFullNoFactor(iNumEntries, iSize) == iNumEntries > iSize

\* A load check that counts the pair about to be inserted
TooFullCountingNew(iNumEntries, iSize) ==
    (iNumEntries + 1) * m_kfMaxLoadFactor[2] > iSize * m_kfMaxLoadFactor[1]

\* m_iNumEntries > m_iSize * m_kfMaxLoadFactor
TooFull(iNumEntries, iSize) ==
    iNumEntries * m_kfMaxLoadFactor[2] > iSize * m_kfMaxLoadFactor[1]

\* The size SetKeyValue asks Resize for
GrownSize(iSize) == iSize * 2

\* An update that writes to a copy of the pair
UpdateValueOfCopy(bucket, it, value) == bucket

\* An update that writes the value to every pair of the bucket
UpdateValueWholeBucket(bucket, it, value) ==
    [i \in 1..Len(bucket) |-> [bucket[i] EXCEPT !.value = value]]

\* itKeyValuePair->value = value
UpdateValue(bucket, it, value) == [bucket EXCEPT ![it].value = value]

\* m_aBuckets[iBucket].push_back( newPair )
PushBack(bucket, key, value) == Append(bucket, [key |-> key, value |-> value])

\* The bucket index computed before the resize, used after it
BucketBeforeResize(t, iBucket, key) == iBucket

\* iBucket = FindBucket( key ) after the resize
BucketAfterResize(t, iBucket, key) == FindBucket(t, key)

\* An erase of the front pair whatever the iterator
EraseFront(bucket, it) == Tail(bucket)

\* An erase of the pair and of every pair behind it
EraseFrom(bucket, it) == SubSeq(bucket, 1, it - 1)

\* m_aBuckets[iBucket].erase( itKeyValuePair )
Erase(bucket, it) == SubSeq(bucket, 1, it - 1) \o SubSeq(bucket, it + 1, Len(bucket))

\* A migration step that drops the rest of the old bucket
PopAll(bucket) == <<>>

\* aOldBuckets[iBucket].pop_front()
PopFront(bucket) == Tail(bucket)

\* The arrays allocated once new TBucket[iSize] has returned
New(heap, iSize) == heap \cup {iSize}

\* A delete[] that releases nothing
DeleteNothing(heap, iSize) == heap

\* The arrays allocated once delete[] of the array of iSize buckets has returned
Delete(heap, iSize) == heap \ {iSize}

\* new TBucket[iSize]
NewBuckets(iSize) == [iBucket \in 0..(iSize - 1) |-> <<>>]

\* ---------------------------------------------------------------- member functions
RECURSIVE SetKeyValue(_, _, _), Resize(_, _), Migrate(_, _, _, _)

SetKeyValue(t, key, value) ==
    LET iBucket == FindBucket(t, key)
        it == FindKeyValuePair(t.aBuckets[iBucket], key)
    IN  IF it /= End(t.aBuckets[iBucket])
        THEN [t EXCEPT !.aBuckets[iBucket] = UpdateValue(@, it, value)]
        ELSE LET full == TooFull(t.iNumEntries, t.iSize)
                 t2 == IF full THEN Resize(t, GrownSize(t.iSize)) ELSE t
                 iBucket2 == IF full THEN BucketAfterResize(t2, iBucket, key) ELSE iBucket
             IN  [t2 EXCEPT !.aBuckets[iBucket2] = PushBack(@, key, value),
                            !.iNumEntries = @ + 1]

\* The loop of Resize: t is the table with the new bucket array, aOldBuckets
\* what is left of the old one, iBucket the loop index
Migrate(t, aOldBuckets, iOldSize, iBucket) ==
    IF iBucket >= iOldSize THEN t
    ELSE IF Len(aOldBuckets[iBucket]) = 0
         THEN Migrate(t, aOldBuckets, iOldSize, iBucket + 1)
         ELSE Migrate(SetKeyValue(t, Head(aOldBuckets[iBucket]).key,
                                     Head(aOldBuckets[iBucket]).value),
                      [aOldBuckets EXCEPT ![iBucket] = PopFront(@)],
                      iOldSize, iBucket)

\* A Resize that does not reset m_iNumEntries before it reinserts
ResizeKeepCount(t, iNewSize) ==
    Migrate([aBuckets |-> NewBuckets(iNewSize), iSize |-> iNewSize,
             iNumEntries |-> t.iNumEntries],
            t.aBuckets, t.iSize, 0)

Resize(t, iNewSize) ==
    Migrate([aBuckets |-> NewBuckets(iNewSize), iSize |-> iNewSize, iNumEntries |-> 0],
            t.aBuckets, t.iSize, 0)

\* A LookUpKey that writes a default value when the key is not found
LookUpKeyWritesDefault(t, key, pValue) ==
    LET iBucket == FindBucket(t, key)
        it == FindKeyValuePair(t.aBuckets[iBucket], key)
    IN  IF it = End(t.aBuckets[iBucket])
        THEN [found |-> FALSE, value |-> 0]
        ELSE [found |-> TRUE, value |-> t.aBuckets[iBucket][it].value]

\* [found, value]: value is the caller's *pValue after the call
LookUpKey(t, key, pValue) ==
    LET iBucket == FindBucket(t, key)
        it == FindKeyValuePair(t.aBuckets[iBucket], key)
    IN  IF it = End(t.aBuckets[iBucket])
        THEN [found |-> FALSE, value |-> pValue]
        ELSE [found |-> TRUE, value |-> t.aBuckets[iBucket][it].value]

\* A RemoveKey that counts the removal before it has searched for the key
RemoveKeyCountFirst(t, key) ==
    LET iBucket == FindBucket(t, key)
        it == FindKeyValuePair(t.aBuckets[iBucket], key)
        counted == [t EXCEPT !.iNumEntries = IF @ > 0 THEN @ - 1 ELSE 0]
    IN  IF it = End(t.aBuckets[iBucket])
        THEN [removed |-> FALSE, table |-> counted]
        ELSE [removed |-> TRUE,
              table |-> [counted EXCEPT !.aBuckets[iBucket] = Erase(@, it)]]

\* [removed, table]
RemoveKey(t, key) ==
    LET iBucket == FindBucket(t, key)
        it == FindKeyValuePair(t.aBuckets[iBucket], key)
    IN  IF it = End(t.aBuckets[iBucket])
        THEN [removed |-> FALSE, table |-> t]
        ELSE [removed |-> TRUE,
              table |-> [t EXCEPT !.aBuckets[iBucket] = Erase(@, it),
                                  !.iNumEntries = @ - 1]]

\* A clearing loop that starts at bucket 1
ClearBucketsFromOne(aBuckets, iSize) ==
    [iBucket \in DOMAIN aBuckets |->
        IF 1 <= iBucket /\ iBucket < iSize THEN <<>> ELSE aBuckets[iBucket]]

\* m_aBuckets[iBucket].clear() for every bucket
ClearBuckets(aBuckets, iSize) ==
    [iBucket \in DOMAIN aBuckets |-> IF iBucket < iSize THEN <<>> ELSE aBuckets[iBucket]]

\* A RemoveAllKeys that releases the bucket array and starts again with one bucket
RemoveAllKeysRelease(t) ==
    [aBuckets |-> NewBuckets(1), iSize |-> 1, iNumEntries |-> t.iNumEntries]

RemoveAllKeys(t) == [t EXCEPT !.aBuckets = ClearBuckets(@, t.iSize)]

\* ---------------------------------------------------------------- actions
Init ==
    /\ iInitialSize \in InitialSizes
    /\ m_kpfHashFunction \in HashFunctions
    /\ m_kfMaxLoadFactor \in LoadFactors
    /\ m_iSize = iInitialSize
    /\ m_aBuckets = NewBuckets(iInitialSize)
    /\ m_iNumEntries = 0
    /\ lastOp = Call("CHashTable", 0, 0, FALSE)
    /\ onlySet = TRUE
    /\ lastSet = [key \in Keys |-> NoValue]
    /\ stack = <<>>
    /\ allocated = {iInitialSize}
    /\ OutsideTableUnused

Store(t) ==
    /\ m_aBuckets' = t.aBuckets
    /\ m_iSize' = t.iSize
    /\ m_iNumEntries' = t.iNumEntries

Fixed == UNCHANGED <<m_kfMaxLoadFactor, m_kpfHashFunction, iInitialSize, outsideTable>>

\* A public call made and returned in one step: no frame is left, and the one
\* array allocated is the table's
Returned == UNCHANGED stack /\ allocated' = {m_iSize'}

CallLookUpKey ==
    \E key \in Keys, pValue \in {CallerValue} :
        LET r == LookUpKey(This, key, pValue)
        IN  /\ lastOp' = Call("LookUpKey", key, r.value, r.found)
            /\ UNCHANGED <<m_aBuckets, m_iSize, m_iNumEntries, lastSet, onlySet>>
            /\ Fixed /\ Returned

CallSetKeyValue ==
    \E key \in Keys, value \in Values :
        LET t == SetKeyValue(This, key, value)
        IN  /\ t.iSize <= MaxSize
            /\ Store(t)
            /\ lastOp' = Call("SetKeyValue", key, value, FALSE)
            /\ lastSet' = [lastSet EXCEPT ![key] = value]
            /\ UNCHANGED onlySet
            /\ Fixed /\ Returned

CallRemoveKey ==
    \E key \in Keys :
        LET r == RemoveKey(This, key)
        IN  /\ Store(r.table)
            /\ lastOp' = Call("RemoveKey", key, 0, r.removed)
            /\ onlySet' = FALSE
            /\ lastSet' = [lastSet EXCEPT ![key] = NoValue]
            /\ Fixed /\ Returned

CallRemoveAllKeys ==
    /\ Store(RemoveAllKeys(This))
    /\ lastOp' = Call("RemoveAllKeys", 0, 0, FALSE)
    /\ onlySet' = FALSE
    /\ lastSet' = [key \in Keys |-> NoValue]
    /\ Fixed /\ Returned

Next ==
    \/ CallLookUpKey
    \/ CallSetKeyValue
    \/ CallRemoveKey
    \/ CallRemoveAllKeys

Spec == Init /\ [][Next]_vars

\* ---------------------------------------------------------------- any hash function
\* The table constructed with any of the plugged hash functions
MapInit ==
    /\ iInitialSize \in InitialSizes
    /\ m_kpfHashFunction \in PluggedHashFunctions
    /\ m_kfMaxLoadFactor \in LoadFactors
    /\ m_iSize = iInitialSize
    /\ m_aBuckets = NewBuckets(iInitialSize)
    /\ m_iNumEntries = 0
    /\ lastOp = Call("CHashTable", 0, 0, FALSE)
    /\ onlySet = TRUE
    /\ lastSet = [key \in Keys |-> NoValue]
    /\ stack = <<>>
    /\ allocated = {iInitialSize}
    /\ OutsideTableUnused

SpecMap == MapInit /\ [][Next]_vars

\* ---------------------------------------------------------------- ten-key scenario
\* CHashTable( 4, hash, 0.7f ), then SetKeyValue( key, key * 10 ) for the keys
\* 1..10 in any order, LookUpKey( 7 ), RemoveKey( 3 ) and RemoveKey( 3 ) again
ScenarioInit ==
    /\ iInitialSize = 4
    /\ m_kpfHashFunction \in HashFunctions
    /\ m_kfMaxLoadFactor = <<7, 10>>
    /\ m_iSize = iInitialSize
    /\ m_aBuckets = NewBuckets(iInitialSize)
    /\ m_iNumEntries = 0
    /\ lastOp = Call("CHashTable", 0, 0, FALSE)
    /\ onlySet = TRUE
    /\ lastSet = [key \in ScenarioKeys |-> NoValue]
    /\ stack = <<>>
    /\ allocated = {iInitialSize}
    /\ OutsideTableUnused

ScenarioInserted == {key \in ScenarioKeys : lastSet[key] /= NoValue}

ScenarioSetKeyValue ==
    /\ lastOp.op \in {"CHashTable", "SetKeyValue"}
    /\ \E key \in ScenarioKeys \ ScenarioInserted :
          /\ Store(SetKeyValue(This, key, ScenarioValue(key)))
          /\ lastOp' = Call("SetKeyValue", key, ScenarioValue(key), FALSE)
          /\ lastSet' = [lastSet EXCEPT ![key] = ScenarioValue(key)]
          /\ UNCHANGED onlySet
          /\ Fixed /\ Returned

ScenarioLookUpKey ==
    /\ lastOp.op = "SetKeyValue" /\ ScenarioInserted = ScenarioKeys
    /\ LET r == LookUpKey(This, 7, CallerValue)
       IN  /\ lastOp' = Call("LookUpKey", 7, r.value, r.found)
           /\ UNCHANGED <<m_aBuckets, m_iSize, m_iNumEntries, lastSet, onlySet>>
           /\ Fixed /\ Returned

ScenarioRemove ==
    LET r == RemoveKey(This, 3)
    IN  /\ Store(r.table)
        /\ lastOp' = Call("RemoveKey", 3, 0, r.removed)
        /\ onlySet' = FALSE
        /\ lastSet' = [lastSet EXCEPT ![3] = NoValue]
        /\ Fixed /\ Returned

ScenarioRemoveKey == lastOp.op = "LookUpKey" /\ ScenarioRemove

ScenarioRemoveKeyAgain == lastOp.op = "RemoveKey" /\ lastOp.result /\ ScenarioRemove

ScenarioNext ==
    \/ ScenarioSetKeyValue
    \/ ScenarioLookUpKey
    \/ ScenarioRemoveKey
    \/ ScenarioRemoveKeyAgain

SpecScenario == ScenarioInit /\ [][ScenarioNext]_vars

\* ---------------------------------------------------------------- SetKeyValue step by step
\* The frame of a SetKeyValue call: its arguments, its local iBucket, and
\* where it is ("FindBucket": at its first line, "push_back": Resize returned)
SetKeyValueFrame(key, value) ==
    [fn |-> "SetKeyValue", pc |-> "FindBucket", key |-> key, value |-> value,
     iBucket |-> 0, aOldBuckets |-> <<>>, iOldSize |-> 0]

\* The frame of a Resize call once it has replaced the bucket array: its locals
\* aOldBuckets and iOldSize, its loop index, and where it is ("while": at the
\* loop test, "pop_front": the SetKeyValue of the front pair returned)
ResizeFrame(aOldBuckets, iOldSize) ==
    [fn |-> "Resize", pc |-> "while", key |-> 0, value |-> 0,
     iBucket |-> 0, aOldBuckets |-> aOldBuckets, iOldSize |-> iOldSize]

Top == stack[Len(stack)]
Return == SubSeq(stack, 1, Len(stack) - 1)
Goto(frame) == [stack EXCEPT ![Len(stack)] = frame]
Running(fn, pc) == stack /= <<>> /\ Top.fn = fn /\ Top.pc = pc

\* A public SetKeyValue call is made
EnterSetKeyValue ==
    /\ stack = <<>>
    /\ \E key \in Keys, value \in Values :
          /\ SetKeyValue(This, key, value).iSize <= MaxSize
          /\ stack' = <<SetKeyValueFrame(key, value)>>
          /\ lastOp' = Call("SetKeyValue", key, value, FALSE)
          /\ lastSet' = [lastSet EXCEPT ![key] = value]
    /\ UNCHANGED <<m_aBuckets, m_iSize, m_iNumEntries, onlySet, allocated>>
    /\ Fixed

\* SetKeyValue from its first line to its return or to its call of Resize,
\* Resize up to its loop
SetKeyValueBody ==
    /\ Running("SetKeyValue", "FindBucket")
    /\ LET t == This
           key == Top.key
           value == Top.value
           iBucket == FindBucket(t, key)
           it == FindKeyValuePair(t.aBuckets[iBucket], key)
       IN  IF it /= End(t.aBuckets[iBucket])
           THEN /\ Store([t EXCEPT !.aBuckets[iBucket] = UpdateValue(@, it, value)])
                /\ stack' = Return
                /\ UNCHANGED allocated
           ELSE IF TooFull(t.iNumEntries, t.iSize)
                THEN /\ Store([aBuckets |-> NewBuckets(GrownSize(t.iSize)),
                               iSize |-> GrownSize(t.iSize), iNumEntries |-> 0])
                     /\ stack' = Append(Goto([Top EXCEPT !.pc = "push_back",
                                                         !.iBucket = iBucket]),
                                        ResizeFrame(t.aBuckets, t.iSize))
                     /\ allocated' = New(allocated, GrownSize(t.iSize))
                ELSE /\ Store([t EXCEPT !.aBuckets[iBucket] = PushBack(@, key, value),
                                        !.iNumEntries = @ + 1])
                     /\ stack' = Return
                     /\ UNCHANGED allocated
    /\ UNCHANGED <<lastOp, lastSet, onlySet>>
    /\ Fixed

\* SetKeyValue after its Resize returned
SetKeyValueInsert ==
    /\ Running("SetKeyValue", "push_back")
    /\ LET iBucket == BucketAfterResize(This, Top.iBucket, Top.key)
       IN  Store([This EXCEPT !.aBuckets[iBucket] = PushBack(@, Top.key, Top.value),
                              !.iNumEntries = @ + 1])
    /\ stack' = Return
    /\ UNCHANGED <<lastOp, lastSet, onlySet, allocated>>
    /\ Fixed

\* The loops of Resize: return, go to the next old bucket, or call SetKeyValue
\* with the front pair of the old bucket
ResizeLoop ==
    /\ Running("Resize", "while")
    /\ stack' =
          IF Top.iBucket >= Top.iOldSize THEN Return
          ELSE IF Len(Top.aOldBuckets[Top.iBucket]) = 0
               THEN Goto([Top EXCEPT !.iBucket = @ + 1])
               ELSE Append(Goto([Top EXCEPT !.pc = "pop_front"]),
                           SetKeyValueFrame(Head(Top.aOldBuckets[Top.iBucket]).key,
                                            Head(Top.aOldBuckets[Top.iBucket]).value))
    /\ allocated' = IF Top.iBucket >= Top.iOldSize
                    THEN Delete(allocated, Top.iOldSize)
                    ELSE allocated
    /\ UNCHANGED <<m_aBuckets, m_iSize, m_iNumEntries, lastOp, lastSet, onlySet>>
    /\ Fixed

\* A pop_front step that leaves the pair in the old bucket
ResizeKeepFront ==
    /\ Running("Resize", "pop_front")
    /\ stack' = Goto([Top EXCEPT !.pc = "while"])
    /\ UNCHANGED <<m_aBuckets, m_iSize, m_iNumEntries, lastOp, lastSet, onlySet,
                   allocated>>
    /\ Fixed

\* aOldBuckets[iBucket].pop_front() once the pair is copied
ResizePopFront ==
    /\ Running("Resize", "pop_front")
    /\ stack' = Goto([Top EXCEPT !.pc = "while",
                                 !.aOldBuckets[Top.iBucket] = PopFront(@)])
    /\ UNCHANGED <<m_aBuckets, m_iSize, m_iNumEntries, lastOp, lastSet, onlySet,
                   allocated>>
    /\ Fixed

\* A step of the SetKeyValue call under way
Step ==
    \/ SetKeyValueBody
    \/ SetKeyValueInsert
    \/ ResizeLoop
    \/ ResizePopFront

StepRemoveKey == stack = <<>> /\ CallRemoveKey

StepRemoveAllKeys == stack = <<>> /\ CallRemoveAllKeys

StepsNext ==
    \/ EnterSetKeyValue
    \/ SetKeyValueBody
    \/ SetKeyValueInsert
    \/ ResizeLoop
    \/ ResizePopFront
    \/ StepRemoveKey
    \/ StepRemoveAllKeys

\* A call that has been made runs: the caller's thread is not suspended for ever
SpecSteps == Init /\ [][StepsNext]_vars /\ WF_vars(Step)

\* ---------------------------------------------------------------- hash functions called directly
\* The bytes the model passes: sixteen values spread over a TUInt8
Bytes == {17 * n : n \in 0..15}

\* A table that exists and is not used
TableUnused ==
    /\ iInitialSize = 1
    /\ m_kpfHashFunction = "JOneAtATimeHash"
    /\ m_kfMaxLoadFactor = <<7, 10>>
    /\ m_iSize = iInitialSize
    /\ m_aBuckets = NewBuckets(iInitialSize)
    /\ m_iNumEntries = 0
    /\ lastOp = Call("CHashTable", 0, 0, FALSE)
    /\ onlySet = TRUE
    /\ lastSet = [key \in Keys |-> NoValue]
    /\ stack = <<>>
    /\ allocated = {iInitialSize}

\* What a direct call of a hash function leaves alone
outsideHash == <<tableVars, inputVars, messengerVars, managerVars, raceVars>>

HashInit ==
    HashUnused /\ TableUnused /\ InputUnused /\ MessengerUnused /\ ManagerUnused /\ RaceUnused

\* The byte sequences that can be passed next: the last one again, or one byte longer
NextKeys == {pKeyData} \cup {Append(pKeyData, byte) : byte \in Bytes}

CallAddUpHash ==
    /\ \E key \in NextKeys :
          /\ Len(key) <= MaxLen
          /\ pKeyData' = key
          /\ iIndex' = AddUpHash(key)
    /\ hashCalled' = "AddUpHash"
    /\ UNCHANGED outsideHash

CallJOneAtATimeHash ==
    /\ \E key \in NextKeys :
          /\ Len(key) <= MaxLen
          /\ pKeyData' = key
          /\ iIndex' = JOneAtATimeHash(key)
    /\ hashCalled' = "JOneAtATimeHash"
    /\ UNCHANGED outsideHash

HashNext ==
    \/ CallAddUpHash
    \/ CallJOneAtATimeHash

SpecHash == HashInit /\ [][HashNext]_vars

\* ---------------------------------------------------------------- key input
outsideInput == <<tableVars, hashVars, messengerVars, managerVars, raceVars>>

InputInit ==
    InputUnused /\ TableUnused /\ HashUnused /\ MessengerUnused /\ ManagerUnused /\ RaceUnused

KeyDownEvent ==
    /\ \E eKeyCode \in KeyCodes :
          /\ g_aiKeyStates' =
                [g_aiKeyStates EXCEPT ![eKeyCode] =
                    IF @ = "kNotPressed" THEN "kPressed" ELSE "kHeld"]
          /\ press' = [press EXCEPT ![eKeyCode] = IF @ = "up" THEN "pressed" ELSE @]
          /\ lastInput' = InputCall("KeyDownEvent", eKeyCode, FALSE, FALSE)
    /\ UNCHANGED outsideInput

KeyUpEvent ==
    /\ \E eKeyCode \in KeyCodes :
          /\ g_aiKeyStates' = [g_aiKeyStates EXCEPT ![eKeyCode] = "kNotPressed"]
          /\ press' = [press EXCEPT ![eKeyCode] = "up"]
          /\ lastInput' = InputCall("KeyUpEvent", eKeyCode, FALSE, FALSE)
    /\ UNCHANGED outsideInput

KeyHit ==
    /\ \E eKeyCode \in KeyCodes :
          LET hit == g_aiKeyStates[eKeyCode] = "kPressed"
          IN  /\ g_aiKeyStates' =
                    IF hit THEN [g_aiKeyStates EXCEPT ![eKeyCode] = "kHeld"]
                    ELSE g_aiKeyStates
              /\ press' = [press EXCEPT ![eKeyCode] = IF @ = "pressed" THEN "reported" ELSE @]
              /\ lastInput' = InputCall("KeyHit", eKeyCode, hit, press[eKeyCode] = "pressed")
    /\ UNCHANGED outsideInput

KeyHeld ==
    /\ \E eKeyCode \in KeyCodes :
          LET held == g_aiKeyStates[eKeyCode] /= "kNotPressed"
          IN  /\ g_aiKeyStates' =
                    IF held THEN [g_aiKeyStates EXCEPT ![eKeyCode] = "kHeld"]
                    ELSE g_aiKeyStates
              /\ lastInput' = InputCall("KeyHeld", eKeyCode, held, FALSE)
              /\ UNCHANGED press
    /\ UNCHANGED outsideInput

InputNext ==
    \/ KeyDownEvent
    \/ KeyUpEvent
    \/ KeyHit
    \/ KeyHeld

SpecInput == InputInit /\ [][InputNext]_vars

\* ---------------------------------------------------------------- messenger
outsideMessenger == <<tableVars, hashVars, inputVars, managerVars, raceVars>>

MessengerInit ==
    MessengerUnused /\ TableUnused /\ HashUnused /\ InputUnused /\ ManagerUnused /\ RaceUnused

\* multimap::insert: behind the pairs whose key is not greater
RECURSIVE UpperBound(_, _, _)
UpperBound(messages, to, it) ==
    IF it > Len(messages) \/ messages[it].to > to THEN it
    ELSE UpperBound(messages, to, it + 1)

Insert(messages, to, msg) ==
    LET it == UpperBound(messages, to, 1)
    IN  SubSeq(messages, 1, it - 1) \o <<[to |-> to, msg |-> msg]>>
            \o SubSeq(messages, it, Len(messages))

\* A find that returns the first pair of the multimap whatever its key
FindBegin(messages, to) == IF messages = <<>> THEN {End(messages)} ELSE {1}

\* multimap::find: the position of a pair with the key, which one is not
\* specified, end() if there is none
Find(messages, to) ==
    LET its == {it \in 1..Len(messages) : messages[it].to = to}
    IN  IF its = {} THEN {End(messages)} ELSE its

\* What FetchMessage can do: [result, msg (the caller's *msg after the call),
\* messages]
FetchMessage(messages, to, msg) ==
    {IF itMessage = End(messages)
     THEN [result |-> FALSE, msg |-> msg, messages |-> messages]
     ELSE [result |-> TRUE, msg |-> messages[itMessage].msg,
           messages |-> Erase(messages, itMessage)] : itMessage \in Find(messages, to)}

\* How many of the messages sent to the UID have not been fetched
Owed(to) ==
    LET RECURSIVE Sum(_)
        Sum(msgs) == IF msgs = {} THEN 0
                     ELSE LET msg == CHOOSE m \in msgs : TRUE
                          IN  sent[[to |-> to, msg |-> msg]] - fetched[[to |-> to, msg |-> msg]]
                                  + Sum(msgs \ {msg})
    IN  Sum(Messages)

TotalSent ==
    LET RECURSIVE Sum(_)
        Sum(pairs) == IF pairs = {} THEN 0
                      ELSE LET pair == CHOOSE p \in pairs : TRUE
                           IN  sent[pair] + Sum(pairs \ {pair})
    IN  Sum(Addressed)

CallSendMessage ==
    /\ TotalSent < MaxSent
    /\ \E to \in UIDs, msg \in Messages :
          /\ m_Messages' = Insert(m_Messages, to, msg)
          /\ sent' = [sent EXCEPT ![[to |-> to, msg |-> msg]] = @ + 1]
          /\ lastFetch' = MessengerCall("SendMessage", to, FALSE, msg, Owed(to))
    /\ UNCHANGED fetched
    /\ UNCHANGED outsideMessenger

CallFetchMessage ==
    /\ \E to \in UIDs :
          \E r \in FetchMessage(m_Messages, to, NoMessage) :
              /\ m_Messages' = r.messages
              /\ fetched' = IF r.result
                            THEN [fetched EXCEPT ![[to |-> to, msg |-> r.msg]] = @ + 1]
                            ELSE fetched
              /\ lastFetch' = MessengerCall("FetchMessage", to, r.result, r.msg, Owed(to))
    /\ UNCHANGED sent
    /\ UNCHANGED outsideMessenger

MessengerNext ==
    \/ CallSendMessage
    \/ CallFetchMessage

SpecMessenger == MessengerInit /\ [][MessengerNext]_vars

\* ---------------------------------------------------------------- entity manager
\* The templates the manager holds, one for CreateEntity and one for
\* CreatePlanet, and the names entities are given
EntityTemplate == [name |-> "Cargo", type |-> "Ship"]
PlanetTemplate == [name |-> "Sun", type |-> "Planet"]
Templates == {EntityTemplate, PlanetTemplate}
EntityNames == {"", "Probe"}

\* The manager as constructed: m_EntityUIDMap is a new table with
\* JOneAtATimeHash and the default load factor (its 2048 initial buckets are
\* scaled down to the model's initial sizes)
ManagerInit ==
    /\ iInitialSize \in InitialSizes
    /\ m_kpfHashFunction = "JOneAtATimeHash"
    /\ m_kfMaxLoadFactor = <<7, 10>>
    /\ m_iSize = iInitialSize
    /\ m_aBuckets = NewBuckets(iInitialSize)
    /\ m_iNumEntries = 0
    /\ lastOp = Call("CHashTable", 0, 0, FALSE)
    /\ onlySet = TRUE
    /\ lastSet = [key \in Keys |-> NoValue]
    /\ stack = <<>>
    /\ allocated = {iInitialSize}
    /\ ManagerUnused
    /\ HashUnused /\ InputUnused /\ MessengerUnused /\ RaceUnused

\* The calls the manager made on m_EntityUIDMap have left it as t
UIDMapStore(t) ==
    /\ Store(t)
    /\ allocated' = {t.iSize}
    /\ UNCHANGED <<m_kfMaxLoadFactor, m_kpfHashFunction, iInitialSize,
                   lastOp, onlySet, lastSet, stack>>

\* new CEntity / new CPlanetEntity
NewEntity(class, template, UID, name) ==
    [class |-> class, template |-> template, UID |-> UID, name |-> name]

\* What CreateEntity and CreatePlanet do once they have made newEntity
\* [entities, table]
AddEntity(t, entities, newEntity) ==
    LET entityIndex == Len(entities)
    IN  [entities |-> Append(entities, newEntity),
         table |-> SetKeyValue(t, newEntity.UID, entityIndex)]

\* A DestroyEntity that leaves the UID map's entry of the moved entity alone
DestroyEntityKeepIndex(t, entities, UID) ==
    LET r == LookUpKey(t, UID, NoValue)
        entityIndex == r.value
    IN  IF ~r.found
        THEN [result |-> FALSE, entities |-> entities, table |-> t]
        ELSE [result |-> TRUE,
              entities |-> SubSeq(IF entityIndex /= Len(entities) - 1
                                  THEN [entities EXCEPT ![entityIndex + 1] =
                                                            entities[Len(entities)]]
                                  ELSE entities,
                                  1, Len(entities) - 1),
              table |-> RemoveKey(t, UID).table]

\* [result, entities, table]
DestroyEntity(t, entities, UID) ==
    LET r == LookUpKey(t, UID, NoValue)
        entityIndex == r.value
        removed == RemoveKey(t, UID).table
        back == entities[Len(entities)]
    IN  IF ~r.found
        THEN [result |-> FALSE, entities |-> entities, table |-> t]
        ELSE IF entityIndex /= Len(entities) - 1
             THEN [result |-> TRUE,
                   entities |-> SubSeq([entities EXCEPT ![entityIndex + 1] = back],
                                       1, Len(entities) - 1),
                   table |-> SetKeyValue(removed, back.UID, entityIndex)]
             ELSE [result |-> TRUE,
                   entities |-> SubSeq(entities, 1, Len(entities) - 1),
                   table |-> removed]

\* What the enumeration history becomes when the entity list has changed
Changed == IF sinceBegin = "none" THEN "none" ELSE "changed"

\* What it becomes when DestroyEntity has returned false
Refused == IF sinceBegin = "begun" THEN "refused" ELSE sinceBegin

\* A call that changes the entity list and leaves the enumeration as it is
KeepEnum(enumerating) == enumerating

\* m_IsEnumerating = false, where the entity list has changed
CancelEnum(enumerating) == FALSE

NoUpdate == UNCHANGED <<entity, updates, liveAtStart>>
EnumSame == UNCHANGED <<m_EnumEntity, m_EnumName, m_EnumTemplateName, m_EnumTemplateType>>

Create(class, template) ==
    /\ entity = NotUpdating
    /\ m_NextUID < MaxUID
    /\ \E name \in EntityNames :
        LET r == AddEntity(This, m_Entities, NewEntity(class, template, m_NextUID, name))
        IN  /\ UIDMapStore(r.table)
            /\ m_Entities' = r.entities
            /\ lastManagerCall' = ManagerCall("Create" \o class, m_NextUID, TRUE)
    /\ m_IsEnumerating' = CancelEnum(m_IsEnumerating)
    /\ sinceBegin' = Changed
    /\ m_NextUID' = m_NextUID + 1
    /\ EnumSame /\ NoUpdate
    /\ UNCHANGED <<hashVars, inputVars, messengerVars, raceVars>>

CreateEntity == Create("Entity", EntityTemplate)

CreatePlanet == Create("Planet", PlanetTemplate)

CallDestroyEntity ==
    /\ entity = NotUpdating
    /\ \E UID \in EntityUIDs :
        LET r == DestroyEntity(This, m_Entities, UID)
        IN  /\ UIDMapStore(r.table)
            /\ m_Entities' = r.entities
            /\ m_IsEnumerating' = IF r.result THEN CancelEnum(m_IsEnumerating)
                                                 ELSE m_IsEnumerating
            /\ sinceBegin' = IF r.result THEN Changed ELSE Refused
            /\ lastManagerCall' = ManagerCall("DestroyEntity", UID, r.result)
    /\ UNCHANGED m_NextUID
    /\ EnumSame /\ NoUpdate
    /\ UNCHANGED <<hashVars, inputVars, messengerVars, raceVars>>

DestroyAllEntities ==
    /\ entity = NotUpdating
    /\ UIDMapStore(RemoveAllKeys(This))
    /\ m_Entities' = <<>>
    /\ m_IsEnumerating' = CancelEnum(m_IsEnumerating)
    /\ sinceBegin' = Changed
    /\ lastManagerCall' = ManagerCall("DestroyAllEntities", 0, TRUE)
    /\ UNCHANGED m_NextUID
    /\ EnumSame /\ NoUpdate
    /\ UNCHANGED <<hashVars, inputVars, messengerVars, raceVars>>

\* What BeginEnumEntities is called with (name, templateName, templateType):
\* nothing to match, or one of the three
EnumFilters == {<<"", "", "">>, <<"Probe", "", "">>, <<"", PlanetTemplate.name, "">>,
                <<"", "", EntityTemplate.type>>}

BeginEnumEntities ==
    /\ entity = NotUpdating
    /\ m_IsEnumerating' = TRUE
    /\ m_EnumEntity' = 0
    /\ \E filter \in EnumFilters :
        /\ m_EnumName' = filter[1]
        /\ m_EnumTemplateName' = filter[2]
        /\ m_EnumTemplateType' = filter[3]
    /\ sinceBegin' = "begun"
    /\ lastManagerCall' = ManagerCall("BeginEnumEntities", 0, TRUE)
    /\ UNCHANGED <<m_Entities, m_NextUID>>
    /\ NoUpdate
    /\ UNCHANGED <<tableVars, hashVars, inputVars, messengerVars, raceVars>>

EndEnumEntities ==
    /\ entity = NotUpdating
    /\ m_IsEnumerating' = FALSE
    /\ sinceBegin' = "none"
    /\ lastManagerCall' = ManagerCall("EndEnumEntities", 0, TRUE)
    /\ UNCHANGED <<m_Entities, m_NextUID>>
    /\ EnumSame /\ NoUpdate
    /\ UNCHANGED <<tableVars, hashVars, inputVars, messengerVars, raceVars>>

\* The test EnumEntity makes of the entity the iterator is at
Matches(found) ==
    /\ m_EnumName = "" \/ found.name = m_EnumName
    /\ m_EnumTemplateName = "" \/ found.template.name = m_EnumTemplateName
    /\ m_EnumTemplateType = "" \/ found.template.type = m_EnumTemplateType

\* The indices at or after the iterator whose entity matches
MatchesFrom(it) == {i \in it..(Len(m_Entities) - 1) : Matches(m_Entities[i + 1])}

\* The iterator after EnumEntity has returned the entity at it
EnumAdvance(it) == it + 1

\* lastManagerCall.result is whether it returned an entity, .UID whose
EnumEntity ==
    /\ entity = NotUpdating
    /\ IF ~m_IsEnumerating
       THEN /\ lastManagerCall' = ManagerCall("EnumEntity", 0, FALSE)
            /\ UNCHANGED <<m_IsEnumerating, m_EnumEntity, sinceBegin>>
       ELSE IF MatchesFrom(m_EnumEntity) /= {}
            THEN LET it == CHOOSE i \in MatchesFrom(m_EnumEntity) :
                               \A j \in MatchesFrom(m_EnumEntity) : i <= j
                 IN  /\ m_EnumEntity' = EnumAdvance(it)
                     /\ lastManagerCall' =
                            ManagerCall("EnumEntity", m_Entities[it + 1].UID, TRUE)
                     /\ UNCHANGED <<m_IsEnumerating, sinceBegin>>
            ELSE /\ m_EnumEntity' = IF m_EnumEntity > Len(m_Entities)
                                    THEN m_EnumEntity ELSE Len(m_Entities)
                 /\ m_IsEnumerating' = FALSE
                 /\ sinceBegin' = "none"
                 /\ lastManagerCall' = ManagerCall("EnumEntity", 0, FALSE)
    /\ UNCHANGED <<m_Entities, m_NextUID, m_EnumName, m_EnumTemplateName,
                   m_EnumTemplateType>>
    /\ NoUpdate
    /\ UNCHANGED <<tableVars, hashVars, inputVars, messengerVars, raceVars>>

\* UpdateAllEntities is called: entity = 0
UpdateAllEntities ==
    /\ entity = NotUpdating
    /\ entity' = 0
    /\ updates' = [UID \in EntityUIDs |-> <<>>]
    /\ liveAtStart' = {m_Entities[i].UID : i \in 1..Len(m_Entities)}
    /\ lastManagerCall' = ManagerCall("UpdateAllEntities", 0, FALSE)
    /\ UNCHANGED <<m_Entities, m_NextUID, m_IsEnumerating, sinceBegin>>
    /\ EnumSame
    /\ UNCHANGED <<tableVars, hashVars, inputVars, messengerVars, raceVars>>

\* A loop that goes on to the next index after it has destroyed an entity
UpdateAdvance(index, alive) == index + 1

\* The loop index after the entity at index has been updated
UpdateIndex(index, alive) == IF alive THEN index + 1 ELSE index

\* One test of the loop of UpdateAllEntities and, if it holds, one pass of its
\* body: alive is what Update returns.  lastManagerCall.result is whether the
\* call has returned
UpdateStep ==
    /\ entity /= NotUpdating
    /\ IF entity < Len(m_Entities)
       THEN \E alive \in BOOLEAN :
               LET UID == m_Entities[entity + 1].UID
                   r == IF alive
                        THEN [result |-> FALSE, entities |-> m_Entities, table |-> This]
                        ELSE DestroyEntity(This, m_Entities, UID)
               IN  /\ updates' = [updates EXCEPT ![UID] = Append(@, alive)]
                   /\ UIDMapStore(r.table)
                   /\ m_Entities' = r.entities
                   /\ m_IsEnumerating' = IF r.result THEN CancelEnum(m_IsEnumerating)
                                                 ELSE m_IsEnumerating
                   /\ sinceBegin' = IF r.result THEN Changed ELSE sinceBegin
                   /\ entity' = UpdateIndex(entity, alive)
                   /\ UNCHANGED lastManagerCall
       ELSE /\ entity' = NotUpdating
            /\ lastManagerCall' = ManagerCall("UpdateAllEntities", 0, TRUE)
            /\ UNCHANGED <<tableVars, m_Entities, m_IsEnumerating, sinceBegin, updates>>
    /\ UNCHANGED <<m_NextUID, liveAtStart>>
    /\ EnumSame
    /\ UNCHANGED <<hashVars, inputVars, messengerVars, raceVars>>

\* Entities created, destroyed and updated
ManagerNext ==
    \/ CreateEntity
    \/ CreatePlanet
    \/ CallDestroyEntity
    \/ DestroyAllEntities
    \/ UpdateAllEntities
    \/ UpdateStep

\* The loop of UpdateAllEntities runs on the calling thread until it exits
SpecManager == ManagerInit /\ [][ManagerNext]_vars /\ WF_vars(UpdateStep)

\* The manager as constructed, its UID map with two buckets
ManagerInitTwo == ManagerInit /\ iInitialSize = 2

\* Entities created and updated, and destroyed by the update only
UpdateNext ==
    \/ CreateEntity
    \/ CreatePlanet
    \/ UpdateAllEntities
    \/ UpdateStep

SpecUpdate == ManagerInitTwo /\ [][UpdateNext]_vars /\ WF_vars(UpdateStep)

\* Entities created, destroyed and enumerated
EnumNext ==
    \/ CreateEntity
    \/ CreatePlanet
    \/ CallDestroyEntity
    \/ DestroyAllEntities
    \/ BeginEnumEntities
    \/ EndEnumEntities
    \/ EnumEntity

SpecEnum == ManagerInitTwo /\ [][EnumNext]_vars

\* ---------------------------------------------------------------- two threads
\* One thread calls SetKeyValue, which runs step by step as above; a second
\* thread calls LookUpKey.  With the lock a call starts only when no other call
\* is under way; without it the steps of the two calls interleave.
RaceInit ==
    /\ iInitialSize = 1
    /\ m_kpfHashFunction = "JOneAtATimeHash"
    /\ m_kfMaxLoadFactor = <<7, 10>>
    /\ m_iSize = iInitialSize
    /\ m_aBuckets = NewBuckets(iInitialSize)
    /\ m_iNumEntries = 0
    /\ lastOp = Call("CHashTable", 0, 0, FALSE)
    /\ onlySet = TRUE
    /\ lastSet = [key \in Keys |-> NoValue]
    /\ stack = <<>>
    /\ allocated = {iInitialSize}
    /\ look = LookUp("idle", 0, 0, 0, FALSE, NoValue, NoValue)
    /\ locked \in BOOLEAN
    /\ HashUnused /\ InputUnused /\ MessengerUnused /\ ManagerUnused

\* No LookUpKey call of the second thread is under way
LookDone == look.pc \in {"idle", "returned"}

\* The first thread calls SetKeyValue( key, 0 ) (with the lock: once it has
\* the lock)
RaceEnterSetKeyValue ==
    /\ locked => LookDone
    /\ EnterSetKeyValue
    /\ lastOp'.value = 0

\* The first thread's call runs on
RaceStep == Step

\* The second thread may run (with the lock: it has the lock)
MayLook == locked => stack = <<>>

NoTable == UNCHANGED <<tableVars, locked, hashVars, inputVars, messengerVars, managerVars>>

\* The value the key has and keeps if nothing sets it: NoValue if it has none,
\* or if the SetKeyValue under way was called with this key
Expected(key) ==
    IF stack /= <<>> /\ stack[1].key = key THEN NoValue ELSE lastSet[key]

\* The second thread calls LookUpKey( key, &value ), *pValue being NoValue
LookEnter ==
    /\ LookDone
    /\ MayLook
    /\ \E key \in Keys :
        look' = LookUp("FindBucket", key, 0, 0, FALSE, NoValue, Expected(key))
    /\ NoTable

\* iBucket = FindBucket( key ), with m_iSize as it is now
LookFindBucket ==
    /\ look.pc = "FindBucket"
    /\ MayLook
    /\ look' = [look EXCEPT !.pc = "begin", !.iBucket = FindBucket(This, look.key)]
    /\ NoTable

\* m_aBuckets[iBucket].begin() in FindKeyValuePair, with m_aBuckets as it is now
LookBegin ==
    /\ look.pc = "begin"
    /\ MayLook
    /\ look' = [look EXCEPT !.pc = "scan", !.array = m_iSize]
    /\ NoTable

\* The Resize frames whose old array is the one the lookup took its bucket from
Migrating == {i \in 1..Len(stack) : stack[i].fn = "Resize" /\ stack[i].iOldSize = look.array}

\* The bucket the lookup walks, if its array is still allocated: the table's,
\* or what a Resize under way has left of it
LookBucket ==
    IF look.array = m_iSize THEN m_aBuckets[look.iBucket]
    ELSE stack[CHOOSE i \in Migrating : TRUE].aOldBuckets[look.iBucket]

\* What LookUpKey returns and leaves in *pValue when it has walked a bucket of
\* the table as it is
LookResult(bucket, key) ==
    LET it == FindKeyValuePair(bucket, key)
    IN  IF it = End(bucket)
        THEN [found |-> FALSE, value |-> NoValue]
        ELSE [found |-> TRUE, value |-> bucket[it].value]

\* What can come of reading a bucket array that was deleted, or of comparing
\* the end of one list with the end of another: anything
Undefined == [found : BOOLEAN, value : Values \cup {NoValue}]

\* The walk of the bucket, the comparison with m_aBuckets[iBucket].end() (with
\* m_aBuckets as it is now) and the return
LookScan ==
    /\ look.pc = "scan"
    /\ MayLook
    /\ \E r \in IF look.array \notin allocated
                THEN Undefined
                ELSE IF look.array = m_iSize
                     THEN {LookResult(LookBucket, look.key)}
                     ELSE IF LookResult(LookBucket, look.key).found
                          THEN {LookResult(LookBucket, look.key)}
                          ELSE Undefined :
        look' = [look EXCEPT !.pc = "returned", !.found = r.found, !.value = r.value]
    /\ NoTable

RaceNext ==
    \/ RaceEnterSetKeyValue
    \/ RaceStep
    \/ LookEnter
    \/ LookFindBucket
    \/ LookBegin
    \/ LookScan

SpecRace == RaceInit /\ [][RaceNext]_vars

\* ---------------------------------------------------------------- properties
\* Where the pairs of a table are: <<bucket index, position in the bucket>>
Positions(t) ==
    UNION {{<<iBucket, it>> : it \in 1..Len(t.aBuckets[iBucket])} : iBucket \in DOMAIN t.aBuckets}

StoredPositions == Positions(This)

PairAt(p) == m_aBuckets[p[1]][p[2]]

Occurrences(t, key) == {p \in Positions(t) : t.aBuckets[p[1]][p[2]].key = key}

\* The pairs of a table, each with the number of times it is stored
RECURSIVE CountIn(_, _, _)
CountIn(bucket, pair, it) ==
    IF it > Len(bucket) THEN 0
    ELSE (IF bucket[it] = pair THEN 1 ELSE 0) + CountIn(bucket, pair, it + 1)

RECURSIVE CountPair(_, _, _)
CountPair(t, pair, iBucket) ==
    IF iBucket >= t.iSize THEN 0
    ELSE CountIn(t.aBuckets[iBucket], pair, 1) + CountPair(t, pair, iBucket + 1)

AllPairs == [key : Keys, value : Values]

Contents(t) == [pair \in AllPairs |-> CountPair(t, pair, 0)]

\* n > size * L for the load factor L the table was constructed with
ExceedsLoad(n, size) == n * m_kfMaxLoadFactor[2] > size * m_kfMaxLoadFactor[1]

Found(value) == [found |-> TRUE, value |-> value]

\* The last call was a SetKeyValue that resized the table
Grew == lastOp.op = "SetKeyValue" /\ m_iSize > lastOp.sizeBefore

\* The last call was a SetKeyValue of a key that was already stored
Updated ==
    /\ lastOp.op = "SetKeyValue"
    /\ m_iSize = lastOp.sizeBefore /\ m_iNumEntries = lastOp.numBefore

\* C1: SetKeyValue(K,V) immediately followed by LookUpKey(K) returns found
\* with value V, from every reachable table state, also when the SetKeyValue
\* resizes the table: it holds for the SetKeyValue that has just returned and
\* for every SetKeyValue that can be called next.
C1_RoundTrip ==
    /\ lastOp.op = "SetKeyValue" =>
          LookUpKey(This, lastOp.key, CallerValue) = Found(lastOp.value)
    /\ \A key \in Keys, value \in Values :
          LookUpKey(SetKeyValue(This, key, value), key, CallerValue) = Found(value)

\* SetKeyValue has just resized the table, which holds two pairs or more, and
\* its key is found with its value
C1_Witness ==
    /\ Grew /\ lastOp.value = 1
    /\ Cardinality(StoredPositions) >= 2
    /\ LookUpKey(This, lastOp.key, CallerValue) = Found(1)

\* C2: after SetKeyValue(K,V1), a SetKeyValue(K,V2) leaves exactly one pair
\* with key K, LookUpKey(K) then returns V2, and m_iNumEntries is what it was
\* after the first call.
C2_UpdateNotDuplicate ==
    /\ lastOp.op = "SetKeyValue" =>
          \A value \in Values :
              LET t2 == SetKeyValue(This, lastOp.key, value)
              IN  /\ Cardinality(Occurrences(t2, lastOp.key)) = 1
                  /\ LookUpKey(t2, lastOp.key, CallerValue) = Found(value)
                  /\ t2.iNumEntries = m_iNumEntries
    /\ Updated => Cardinality(Occurrences(This, lastOp.key)) = 1

\* SetKeyValue has just updated a key that is not at the front of its bucket
C2_Witness ==
    /\ Updated
    /\ \E p \in Occurrences(This, lastOp.key) : p[2] >= 2 /\ PairAt(p).value = lastOp.value

\* C3: after SetKeyValue(K,V), RemoveKey(K) returns true; LookUpKey(K) after
\* the removal is not-found and a second RemoveKey(K) returns false.
C3_Removal ==
    /\ lastOp.op = "SetKeyValue" =>
          LET r == RemoveKey(This, lastOp.key)
          IN  /\ r.removed
              /\ ~LookUpKey(r.table, lastOp.key, CallerValue).found
              /\ ~RemoveKey(r.table, lastOp.key).removed
    /\ (lastOp.op = "RemoveKey" /\ lastOp.result) =>
          /\ ~LookUpKey(This, lastOp.key, CallerValue).found
          /\ ~RemoveKey(This, lastOp.key).removed

\* RemoveKey has just removed a key from a bucket that still holds a pair
C3_Witness ==
    /\ lastOp.op = "RemoveKey" /\ lastOp.result
    /\ m_iNumEntries = lastOp.numBefore - 1
    /\ Len(m_aBuckets[FindBucket(This, lastOp.key)]) >= 1

\* C4: RemoveKey of a key that is not stored returns false and leaves the
\* buckets, m_iNumEntries and m_iSize as they are; m_iSize is never 0, so the
\* modulus of FindBucket is defined.
C4_RemoveAbsent ==
    /\ m_iSize >= 1
    /\ \A key \in Keys :
          Occurrences(This, key) = {} =>
              RemoveKey(This, key) = [removed |-> FALSE, table |-> This]
    /\ (lastOp.op = "RemoveKey" /\ ~lastOp.result) =>
          (m_iSize = lastOp.sizeBefore /\ m_iNumEntries = lastOp.numBefore)

\* RemoveKey has just returned false on a table that holds other pairs
C4_Witness ==
    /\ lastOp.op = "RemoveKey" /\ ~lastOp.result
    /\ Occurrences(This, lastOp.key) = {}
    /\ m_iNumEntries >= 1
    /\ StoredPositions /= {}

\* C5: m_iNumEntries is the number of pairs stored in the buckets, in
\* particular 0 right after RemoveAllKeys.
C5_NumEntriesExact == m_iNumEntries = Cardinality(StoredPositions)

\* C6: a SetKeyValue right after RemoveAllKeys behaves as on a freshly
\* constructed table of the same bucket count: m_iSize is unchanged and the
\* table holds exactly the one pair.
C6_ClearThenInsert ==
    lastOp.op = "RemoveAllKeys" =>
        \A key \in Keys, value \in Values :
            LET t2 == SetKeyValue(This, key, value)
                fresh == [aBuckets |-> NewBuckets(m_iSize), iSize |-> m_iSize,
                          iNumEntries |-> 0]
            IN  /\ t2.iSize = m_iSize
                /\ t2.aBuckets = SetKeyValue(fresh, key, value).aBuckets

\* C7: after RemoveAllKeys, LookUpKey returns not-found for every key.
C7_ClearedAll ==
    lastOp.op = "RemoveAllKeys" =>
        \A key \in Keys : ~LookUpKey(This, key, CallerValue).found

\* RemoveAllKeys has just cleared a grown table that held two pairs or more
C7_Witness ==
    /\ lastOp.op = "RemoveAllKeys"
    /\ lastOp.numBefore >= 2
    /\ m_iSize > iInitialSize

\* C8: every stored pair lies in the bucket FindBucket gives for its key with
\* the current m_iSize.
C8_BucketPlacement ==
    \A p \in StoredPositions : p[1] = FindBucket(This, PairAt(p).key)

\* A SetKeyValue has just resized a table that now holds pairs in three
\* different buckets
C8_Witness ==
    /\ Grew
    /\ Cardinality({p[1] : p \in StoredPositions}) = 3

\* C9: a Resize keeps exactly the pairs of the table, each once; and after a
\* run without removals, every key set is found by LookUpKey with the value
\* last set for it.
C9_GrowthPreserves ==
    /\ TooFull(m_iNumEntries, m_iSize) =>
          Contents(Resize(This, GrownSize(m_iSize))) = Contents(This)
    /\ onlySet =>
          \A key \in Keys :
              lastSet[key] /= NoValue => LookUpKey(This, key, CallerValue) = Found(lastSet[key])

\* Every key set, without removals, through two doublings
C9_Witness ==
    /\ onlySet
    /\ \A key \in Keys : lastSet[key] /= NoValue
    /\ m_iSize >= 4 * iInitialSize

\* C10 as claimed: after a run without removals, with N = m_iNumEntries
\* distinct keys stored and N > S * L, the table has grown.
C10_GrowthTriggerAsClaimed ==
    (onlySet /\ ExceedsLoad(m_iNumEntries, iInitialSize)) => m_iSize > iInitialSize

\* C10 amended: after a run without removals, with N distinct keys stored and
\* N - 1 > S * L (the count before the N-th insertion exceeds S * L), the
\* table has grown.
C10_GrowthTrigger ==
    (onlySet /\ m_iNumEntries >= 1 /\ ExceedsLoad(m_iNumEntries - 1, iInitialSize)) =>
        m_iSize > iInitialSize

\* A run without removals whose last SetKeyValue found the initial table too
\* full
C10_Witness ==
    /\ onlySet /\ Grew
    /\ ExceedsLoad(lastOp.numBefore, iInitialSize)
    /\ lastOp.sizeBefore = iInitialSize

\* The table was constructed with a load factor of 0.5 or more
LoadAtLeastHalf == 2 * m_kfMaxLoadFactor[1] >= m_kfMaxLoadFactor[2]

\* C11: m_iSize never decreases over a call, and LookUpKey, RemoveKey and
\* RemoveAllKeys leave it unchanged.
C11_MonotonicSize ==
    /\ m_iSize >= lastOp.sizeBefore
    /\ lastOp.op \in {"LookUpKey", "RemoveKey", "RemoveAllKeys"} => m_iSize = lastOp.sizeBefore
    /\ \A key \in Keys : RemoveKey(This, key).table.iSize = m_iSize
    /\ RemoveAllKeys(This).iSize = m_iSize

\* RemoveAllKeys has just returned on a grown table that held pairs
C11_Witness ==
    /\ lastOp.op = "RemoveAllKeys"
    /\ m_iSize >= 2 * iInitialSize
    /\ lastOp.numBefore >= 1
    /\ StoredPositions = {}

\* C12 as claimed: for every load factor, m_iNumEntries <= m_iSize * L + 1.
C12_LoadSlackAsClaimed ==
    m_iNumEntries * m_kfMaxLoadFactor[2]
        <= m_iSize * m_kfMaxLoadFactor[1] + m_kfMaxLoadFactor[2]

\* C12 amended: for every load factor of 0.5 or more,
\* m_iNumEntries <= m_iSize * L + 1.
C12_LoadSlack == LoadAtLeastHalf => C12_LoadSlackAsClaimed

\* A table with a load factor of 0.5 or more that is over its threshold by
\* exactly the one entry
C12_Witness ==
    /\ LoadAtLeastHalf
    /\ ExceedsLoad(m_iNumEntries, m_iSize)
    /\ ~ExceedsLoad(m_iNumEntries - 1, m_iSize)
    /\ m_iNumEntries = Cardinality(StoredPositions)
    /\ m_iNumEntries >= 2

\* What C17 says of a SetKeyValue of a key that is not stored, with the
\* factor by which m_iSize may grow left open: exact = TRUE asks for exactly
\* twice the size at every load factor, exact = FALSE for exactly twice at
\* load factors of 0.5 or more and at least twice otherwise
InsertOrdering(exact) ==
    /\ \A key \in Keys, value \in Values :
          Occurrences(This, key) = {} =>
              LET t2 == SetKeyValue(This, key, value)
                  bucket == t2.aBuckets[FindBucket(t2, key)]
              IN  /\ (t2.iSize /= m_iSize) <=> ExceedsLoad(m_iNumEntries, m_iSize)
                  /\ ExceedsLoad(m_iNumEntries, m_iSize) =>
                        /\ t2.iSize >= 2 * m_iSize
                        /\ (exact \/ LoadAtLeastHalf) => t2.iSize = 2 * m_iSize
                  /\ Len(bucket) >= 1
                  /\ bucket[Len(bucket)] = [key |-> key, value |-> value]
    /\ (lastOp.op = "SetKeyValue" /\ ~Updated) =>
          /\ Grew <=> ExceedsLoad(lastOp.numBefore, lastOp.sizeBefore)
          /\ (Grew /\ (exact \/ LoadAtLeastHalf)) => m_iSize = 2 * lastOp.sizeBefore

C19_UpdateInPlace ==
    \A key \in Keys, value \in Values :
        \A p \in Occurrences(This, key) :
            SetKeyValue(This, key, value) =
                [This EXCEPT !.aBuckets[p[1]][p[2]].value = value]

\* SetKeyValue has just updated a key in a table that is too full, in a
\* bucket shared with another pair
C19_Witness ==
    /\ Updated
    /\ ExceedsLoad(m_iNumEntries, m_iSize)
    /\ Len(m_aBuckets[FindBucket(This, lastOp.key)]) >= 2
    /\ \E p \in StoredPositions : PairAt(p).value /= lastOp.value

\* C20: RemoveKey of a stored key erases that one pair: m_iNumEntries goes
\* down by 1, m_iSize is unchanged, LookUpKey of every other key is unchanged.
C20_RemoveOne ==
    \A key \in Keys :
        Occurrences(This, key) /= {} =>
            LET r == RemoveKey(This, key)
            IN  /\ r.removed
                /\ r.table.iNumEntries = m_iNumEntries - 1
                /\ r.table.iSize = m_iSize
                /\ Cardinality(Positions(r.table)) = Cardinality(StoredPositions) - 1
                /\ \A other \in Keys \ {key} :
                      LookUpKey(r.table, other, CallerValue) =
                          LookUpKey(This, other, CallerValue)

\* RemoveKey has just removed a key and two other pairs are still stored
C20_Witness ==
    /\ lastOp.op = "RemoveKey" /\ lastOp.result
    /\ m_iNumEntries = lastOp.numBefore - 1
    /\ Cardinality(StoredPositions) >= 2

\* C14: a LookUpKey call leaves the buckets, m_iNumEntries and m_iSize
\* unchanged; it returns true exactly for a stored key, and for a key that is
\* not stored the caller's value is what it was.
C14_LookUpReadOnly ==
    [][lastOp'.op = "LookUpKey" =>
          /\ UNCHANGED <<m_aBuckets, m_iSize, m_iNumEntries>>
          /\ lastOp'.result = (Occurrences(This, lastOp'.key) /= {})
          /\ ~lastOp'.result => lastOp'.value = CallerValue]_vars

\* LookUpKey has just returned false on a table that holds pairs
C14_Witness ==
    /\ lastOp.op = "LookUpKey" /\ ~lastOp.result
    /\ lastOp.value = CallerValue
    /\ StoredPositions /= {}


\* C13: in the ten-key scenario (initial size 4, load factor 0.7, keys 1..10
\* stored with key * 10) the table has 16 buckets once the ten keys are in,
\* having passed through 8; LookUpKey(7) finds 70; the first RemoveKey(3)
\* returns true, the second returns false, and m_iNumEntries is then 9.
C13_Scenario ==
    /\ m_iSize \in {4, 8, 16}
    /\ Cardinality(ScenarioInserted) <= 3 => m_iSize = 4
    /\ Cardinality(ScenarioInserted) \in 4..6 => m_iSize = 8
    /\ Cardinality(ScenarioInserted) >= 7 => m_iSize = 16
    /\ ScenarioInserted = ScenarioKeys =>
          /\ LookUpKey(This, 7, CallerValue) = Found(70)
          /\ m_iNumEntries = 10
          /\ LET first == RemoveKey(This, 3)
                 second == RemoveKey(first.table, 3)
             IN  /\ first.removed /\ ~second.removed
                 /\ second.table.iNumEntries = 9 /\ second.table.iSize = 16
    /\ lastOp.op = "LookUpKey" => lastOp.result /\ lastOp.value = 70
    /\ lastOp.op = "RemoveKey" =>
          /\ m_iNumEntries = 9 /\ m_iSize = 16
          /\ Cardinality(StoredPositions) = 9
          /\ lastOp.result = (lastOp.numBefore = 10)

\* The second RemoveKey(3) has returned false
C13_Witness ==
    /\ lastOp.op = "RemoveKey" /\ ~lastOp.result /\ lastOp.numBefore = 9
    /\ m_iSize = 16 /\ m_iNumEntries = 9 /\ ~onlySet
    /\ LookUpKey(This, 7, CallerValue) = Found(70)


\* The answer LookUpKey gives for a key that is not stored
NotFound == [found |-> FALSE, value |-> CallerValue]

\* C15: every SetKeyValue call that is made returns, with every Resize it
\* triggers (nested ones included), and when it has returned its key is stored
\* with its value; between calls every key set and not removed since is found
\* with its last value, and no other key is found.
C15_InsertionCompletes ==
    /\ [](stack = <<>> =>
            \A key \in Keys :
                LookUpKey(This, key, CallerValue) =
                    IF lastSet[key] = NoValue THEN NotFound ELSE Found(lastSet[key]))
    /\ (stack /= <<>>) ~>
          (/\ stack = <<>> /\ lastOp.op = "SetKeyValue"
           /\ LookUpKey(This, lastOp.key, CallerValue) = Found(lastOp.value))

\* A SetKeyValue whose Resize triggered a Resize has returned, its key stored
C15_Witness ==
    /\ stack = <<>> /\ lastOp.op = "SetKeyValue"
    /\ m_iSize >= 4 * lastOp.sizeBefore
    /\ LookUpKey(This, lastOp.key, CallerValue) = Found(lastOp.value)


\* The arrays that the Resize calls under way hold in aOldBuckets
OldArrays == {stack[i].iOldSize : i \in {j \in 1..Len(stack) : stack[j].fn = "Resize"}}

\* C21: between public calls exactly one bucket array is allocated, the
\* table's; while a call runs the allocated arrays are the table's and the
\* aOldBuckets of each Resize under way (nested ones included), all different;
\* a Resize that reaches its delete[] holds an array that is still allocated
\* and whose buckets are all empty, and no released array is referred to.
C21_SingleOwnership ==
    /\ stack = <<>> => allocated = {m_iSize}
    /\ allocated = {m_iSize} \cup OldArrays
    /\ Cardinality(allocated) = 1 + Cardinality({j \in 1..Len(stack) : stack[j].fn = "Resize"})
    /\ Running("Resize", "while") /\ Top.iBucket >= Top.iOldSize =>
          /\ Top.iOldSize \in allocated
          /\ \A iBucket \in 0..(Top.iOldSize - 1) : Top.aOldBuckets[iBucket] = <<>>

\* A SetKeyValue whose Resize triggered a nested Resize has returned: three
\* arrays were allocated on the way and one is left
C21_Witness ==
    /\ stack = <<>> /\ lastOp.op = "SetKeyValue"
    /\ 4 * lastOp.sizeBefore <= m_iSize
    /\ allocated = {m_iSize} /\ Cardinality(StoredPositions) >= 3


\* C24: in every reachable state, between calls and at every step of a
\* SetKeyValue and of the Resize calls it makes, no key occurs in more than one
\* pair of the table, in whatever buckets; between calls a key occurs once if
\* it was set and not removed since, and not at all otherwise.
C24_KeyUnique ==
    /\ \A key \in Keys : Cardinality(Occurrences(This, key)) <= 1
    /\ stack = <<>> =>
          \A key \in Keys :
              Cardinality(Occurrences(This, key)) = IF lastSet[key] = NoValue THEN 0 ELSE 1

\* A SetKeyValue that resized the table has returned, with three keys stored,
\* two of them in one bucket
C24_Witness ==
    /\ stack = <<>> /\ Grew /\ Cardinality(StoredPositions) >= 3
    /\ \E iBucket \in DOMAIN m_aBuckets : Len(m_aBuckets[iBucket]) >= 2


\* What the abstract map (lastSet: SetKeyValue assigns, RemoveKey deletes,
\* RemoveAllKeys empties) answers to a lookup of the key
MapLookUp(key) == IF lastSet[key] = NoValue THEN NotFound ELSE Found(lastSet[key])

\* C25: after any sequence of calls, and for every hash function, one that
\* sends every key to the same bucket included, LookUpKey and RemoveKey return
\* for every key what the abstract map returns, and so did the LookUpKey that
\* has just returned.
C25_MapRefinement ==
    /\ \A key \in Keys :
          /\ LookUpKey(This, key, CallerValue) = MapLookUp(key)
          /\ RemoveKey(This, key).removed = (lastSet[key] /= NoValue)
    /\ lastOp.op = "LookUpKey" =>
          [found |-> lastOp.result, value |-> lastOp.value] = MapLookUp(lastOp.key)

\* With every key in one bucket, after a removal and a resize, a LookUpKey has
\* found a key while another key is absent
C25_Witness ==
    /\ m_kpfHashFunction = "OneBucketHash" /\ ~onlySet /\ m_iSize > iInitialSize
    /\ lastOp.op = "LookUpKey" /\ lastOp.result
    /\ Cardinality(StoredPositions) = 2
    /\ \E key \in Keys : lastSet[key] = NoValue


\* The reference one-at-a-time function on 32-bit words written bit by bit,
\* bit 0 the lowest: every add and shift is modulo 2^32 by construction
WordBits == 0..31
RefWord(byte) == [i \in WordBits |-> IF i < 8 THEN (byte \div (2 ^ i)) % 2 ELSE 0]
RefShl(a, n) == [i \in WordBits |-> IF i >= n THEN a[i - n] ELSE 0]
RefShr(a, n) == [i \in WordBits |-> IF i + n <= 31 THEN a[i + n] ELSE 0]
RefXor(a, b) == [i \in WordBits |-> (a[i] + b[i]) % 2]

\* The sum bits from bit i up, as a sequence, given the carry into bit i
RECURSIVE RefSum(_, _, _, _)
RefSum(a, b, i, carry) ==
    IF i > 31 THEN <<>>
    ELSE LET sum == a[i] + b[i] + carry
         IN  <<sum % 2>> \o RefSum(a, b, i + 1, sum \div 2)

RefAdd(a, b) ==
    LET sum == RefSum(a, b, 0, 0)
    IN  [i \in WordBits |-> sum[i + 1]]

RECURSIVE RefBytes(_, _, _)
RefBytes(acc, bytes, n) ==
    IF n > Len(bytes) THEN acc
    ELSE LET a1 == RefAdd(acc, RefWord(bytes[n]))
             a2 == RefAdd(a1, RefShl(a1, 10))
             a3 == RefXor(a2, RefShr(a2, 6))
         IN  RefBytes(a3, bytes, n + 1)

RefOneAtATime(bytes) ==
    LET a0 == RefBytes(RefWord(0), bytes, 1)
        a1 == RefAdd(a0, RefShl(a0, 3))
        a2 == RefXor(a1, RefShr(a1, 11))
    IN  RefAdd(a2, RefShl(a2, 15))

\* The bits of a TUInt32 of the model
BitsOf(h) ==
    [i \in WordBits |-> IF i < 16 THEN (h[2] \div (2 ^ i)) % 2
                                  ELSE (h[1] \div (2 ^ (i - 16))) % 2]

\* C23: JOneAtATimeHash returns, for every byte sequence, what the reference
\* one-at-a-time function returns: 0 for the empty sequence, and both halves of
\* the result stay below 2^16, that is the result below 2^32.
C23_OneAtATime ==
    hashCalled = "JOneAtATimeHash" =>
        /\ BitsOf(iIndex) = RefOneAtATime(pKeyData)
        /\ iIndex[1] \in 0..(Half - 1) /\ iIndex[2] \in 0..(Half - 1)
        /\ pKeyData = <<>> => iIndex = <<0, 0>>

\* JOneAtATimeHash has returned for a sequence of MaxLen bytes the last of
\* which has its top bit set, a result with bits in both halves
C23_Witness ==
    /\ hashCalled = "JOneAtATimeHash"
    /\ Len(pKeyData) >= 2 /\ pKeyData[Len(pKeyData)] >= 128
    /\ iIndex[1] >= 32768 /\ iIndex[2] > 0


\* C29: a KeyHit call returns true if and only if it is the first KeyHit call
\* for its key since a KeyDownEvent found the key not pressed, whatever KeyHeld
\* calls and repeated KeyDownEvents came in between.
C29_KeyHitOnce ==
    lastInput.op = "KeyHit" => lastInput.result = lastInput.first


\* How many times a pair is in the multimap
Pending(pair) == Cardinality({it \in 1..Len(m_Messages) : m_Messages[it] = pair})

\* C30: FetchMessage(to) returns true exactly when a message sent to the UID
\* has not been fetched yet, and it returns such a message; every message
\* sent is either still in the multimap or was returned once, to a fetch for
\* its addressee; a FetchMessage that fails leaves the multimap as it is.
C30_Delivery ==
    /\ \A pair \in Addressed : sent[pair] = fetched[pair] + Pending(pair)
    /\ lastFetch.op = "FetchMessage" =>
          /\ lastFetch.result = (lastFetch.owed > 0)
          /\ lastFetch.result =>
                /\ lastFetch.msg \in Messages
                /\ fetched[[to |-> lastFetch.to, msg |-> lastFetch.msg]] >= 1
                /\ Owed(lastFetch.to) = lastFetch.owed - 1
          /\ ~lastFetch.result => lastFetch.msg = NoMessage
    /\ \A to \in UIDs :
          \A r \in FetchMessage(m_Messages, to, NoMessage) :
              /\ r.result = (Owed(to) > 0)
              /\ ~r.result => r.messages = m_Messages
              /\ r.result => Len(r.messages) = Len(m_Messages) - 1

\* A FetchMessage for a UID has failed while messages for two other UIDs wait,
\* one of them fetched before
C30_Witness ==
    /\ lastFetch.op = "FetchMessage" /\ ~lastFetch.result
    /\ Len(m_Messages) >= 2 /\ m_Messages[1].to /= m_Messages[2].to
    /\ \E pair \in Addressed : fetched[pair] >= 1


\* The UIDs of the entities in the vector
LiveUIDs == {m_Entities[i].UID : i \in 1..Len(m_Entities)}

\* What m_EntityUIDMap->LookUpKey( UID, &entityIndex ) gives
UIDIndex(UID) == LookUpKey(This, UID, NoValue)

\* C26: between the calls of the entity manager, and between the passes of the
\* loop of UpdateAllEntities, the UID map is a bijection between the UIDs of the
\* entities in m_Entities and the indices 0..size-1: looking up the UID of the
\* entity at index i yields i, no two entities share a UID, every pair the map
\* stores is the UID of an entity in the vector, and a UID that is not in the
\* vector (destroyed or never given) is not found.
C26_UIDMapBijection ==
    /\ \A i \in 1..Len(m_Entities) :
        UIDIndex(m_Entities[i].UID) = [found |-> TRUE, value |-> i - 1]
    /\ \A i, j \in 1..Len(m_Entities) :
        m_Entities[i].UID = m_Entities[j].UID => i = j
    /\ \A UID \in EntityUIDs \ LiveUIDs : ~UIDIndex(UID).found
    /\ \A iBucket \in 0..(m_iSize - 1) : \A i \in 1..Len(m_aBuckets[iBucket]) :
        /\ m_aBuckets[iBucket][i].key \in LiveUIDs
        /\ \A j \in 1..Len(m_aBuckets[iBucket]) :
            m_aBuckets[iBucket][i].key = m_aBuckets[iBucket][j].key => i = j

\* An entity was destroyed that was not the last: the last one has taken its
\* index, and an entity created before it is still in the vector behind it
C26_Witness ==
    /\ lastManagerCall = ManagerCall("DestroyEntity", 0, TRUE)
    /\ Len(m_Entities) = 2
    /\ m_Entities[1].UID = 2
    /\ m_Entities[2].UID = 1
    /\ UIDIndex(2).value = 0


\* UpdateAllEntities is in its loop
Updating == entity /= NotUpdating

\* The loop so far: every entity in front of the index has been updated once
\* and returned true, no entity at or behind it has been updated, the entities
\* gone from the vector are those whose Update returned false, and nothing was
\* updated that was not in the vector at the start
UpdatedSoFar ==
    /\ \A i \in 1..Len(m_Entities) :
        updates[m_Entities[i].UID] = IF i <= entity THEN <<TRUE>> ELSE <<>>
    /\ LiveUIDs \subseteq liveAtStart
    /\ \A UID \in liveAtStart \ LiveUIDs : updates[UID] = <<FALSE>>
    /\ \A UID \in EntityUIDs \ liveAtStart : updates[UID] = <<>>

\* The call has returned: every entity of the start was updated exactly once,
\* and is in the vector if and only if its Update returned true
UpdatedOnce ==
    /\ \A UID \in liveAtStart :
        /\ Len(updates[UID]) = 1
        /\ UID \in LiveUIDs <=> updates[UID] = <<TRUE>>
    /\ LiveUIDs \subseteq liveAtStart
    /\ \A UID \in EntityUIDs \ liveAtStart : updates[UID] = <<>>

\* A pass of the loop has destroyed the entity at the index, which was not the
\* last: the last entity is at the index now, and the index has not moved
MovedIsNext ==
    Updating /\ Len(m_Entities') < Len(m_Entities) /\ entity + 1 < Len(m_Entities)
        => /\ entity' = entity
           /\ m_Entities'[entity + 1] = m_Entities[Len(m_Entities)]
           /\ updates'[m_Entities'[entity + 1].UID] = <<>>

\* C27: UpdateAllEntities returns, and when it has, Update was called exactly
\* once on every entity that was in the vector when it was called: an entity
\* whose Update returned false is destroyed, the last entity is moved to its
\* index and is the next one updated, and while the loop runs no entity in
\* front of the index is left out and none is updated twice.
C27_UpdateAll ==
    /\ [](Updating => UpdatedSoFar)
    /\ [](lastManagerCall = ManagerCall("UpdateAllEntities", 0, TRUE) => UpdatedOnce)
    /\ [][MovedIsNext]_vars
    /\ Updating ~> ~Updating

\* The call has returned; of three entities the first returned false and was
\* destroyed, the last one took its index and was updated with the second
C27_Witness ==
    /\ lastManagerCall = ManagerCall("UpdateAllEntities", 0, TRUE)
    /\ liveAtStart = {0, 1, 2}
    /\ updates[0] = <<FALSE>>
    /\ updates[1] = <<TRUE>>
    /\ updates[2] = <<TRUE>>
    /\ Len(m_Entities) = 2
    /\ m_Entities[1].UID = 2


\* The last call was an EnumEntity that returned an entity
EnumReturned == lastManagerCall.op = "EnumEntity" /\ lastManagerCall.result

\* EnumEntity returns an entity only if, since the last BeginEnumEntities, there
\* was no EndEnumEntities, no EnumEntity that ran out, and no call at all of
\* CreateEntity, CreatePlanet, DestroyEntity or DestroyAllEntities
C28_AnyDestroyCancels == EnumReturned => sinceBegin = "begun"

\* C28: an enumeration is active, and EnumEntity returns an entity, only if
\* since the last BeginEnumEntities there was no EndEnumEntities, no EnumEntity
\* that ran out, and no CreateEntity, CreatePlanet, DestroyAllEntities or
\* DestroyEntity that returned true; a DestroyEntity that returned false changes
\* nothing and leaves the enumeration active.  The iterator is therefore never
\* used after the entity list has changed, and it is within the vector.
C28_EnumActive ==
    /\ m_IsEnumerating => sinceBegin \in {"begun", "refused"}
    /\ EnumReturned => sinceBegin \in {"begun", "refused"} /\ m_IsEnumerating
    /\ m_IsEnumerating => m_EnumEntity <= Len(m_Entities)
    /\ EnumReturned => \E i \in 1..m_EnumEntity :
        /\ m_Entities[i].UID = lastManagerCall.UID
        /\ Matches(m_Entities[i])

\* EnumEntity has returned the second of two entities after a DestroyEntity
\* that returned false
C28_Witness ==
    /\ EnumReturned
    /\ sinceBegin = "refused"
    /\ Len(m_Entities) = 2
    /\ m_EnumEntity = 2
    /\ lastManagerCall.UID = m_Entities[2].UID


\* The lookup has returned for a key that had a value when it was called and
\* has it still
LookedUpStored ==
    look.pc = "returned" /\ look.expect /= NoValue /\ lastSet[look.key] = look.expect

\* C22: with every call made under one lock, a LookUpKey never takes its bucket
\* from an array other than the table's own allocated one, and it finds, with
\* its value, every key that is stored when it is called; without the lock a
\* LookUpKey interleaved with a SetKeyValue that resizes can return not-found
\* for a key stored before and after (the state C22_Witness).
C22_LockedLookUp ==
    locked =>
        /\ look.pc = "scan" => look.array = m_iSize /\ look.array \in allocated
        /\ ~LookDone => stack = <<>>
        /\ LookedUpStored => look.found /\ look.value = look.expect

\* Without the lock: the SetKeyValue of another key has resized and returned,
\* the lookup returned not-found, and the key is in the table with the value
\* it had before
C22_Witness ==
    /\ ~locked
    /\ LookedUpStored
    /\ ~look.found
    /\ stack = <<>>
    /\ lastOp.op = "SetKeyValue"
    /\ lastOp.key /= look.key
    /\ Grew
    /\ LookUpKey(This, look.key, NoValue) = [found |-> TRUE, value |-> look.expect]


====
